---- MODULE Spec2Model ----
(***************************************************************************)
(* Walk-forward ARIMA grid search of the notebook src/unnamed/part_000:    *)
(* evaluate_arima_models (lines 68-83) and evaluate_models (131-146).      *)
(*                                                                         *)
(* The statsmodels ARIMA fit/forecast pair is an external black box: each  *)
(* call either raises or returns a forecast, chosen nondeterministically,  *)
(* whatever the history and the order are.                                 *)
(* Floating-point scores are kept in fixed point, in thousandths: a score  *)
(* v stands for floor(1000 * rmse).  Within the bounds below two distinct  *)
(* root-mean-squared errors never share a fixed-point value.               *)
(* The series is a date-indexed pandas Series as in the notebook, so that  *)
(* X[a:b] and test[t] are positional.                                      *)
(***************************************************************************)
EXTENDS Integers, Sequences, FiniteSets, TLC

VARIABLES
    dataset,      \* the series handed to evaluate_models (observations)
    numeric,      \* whether dataset.astype('float32') can coerce it
    p_values,     \* the three candidate lists
    d_values,
    q_values,
    pc,           \* control point of evaluate_models
    pos,          \* <<i, j, k>>: indices of the three nested for loops
    history,      \* evaluate_arima_models: history
    predictions,  \* evaluate_arima_models: predictions
    t,            \* evaluate_arima_models: loop variable t
    best_score,   \* evaluate_models: best_score
    best_cfg,     \* evaluate_models: best_cfg
    output,       \* lines printed to standard out, in order
    evaluated,    \* history variable: one entry per finished candidate
    walked        \* history variable: forecasts made by the last finished candidate

vars == <<dataset, numeric, p_values, d_values, q_values, pc, pos, history,
          predictions, t, best_score, best_cfg, output, evaluated, walked>>

----------------------------------------------------------------------------
(* Bounds of the model. *)

\* longest series of the grid search specification
MaxLen == 4
\* longest series of the evaluator specification (the example of length 10)
MaxEvalLen == 10
\* forecasts returned by the modeling primitive are 0..MaxForecast
MaxForecast == 1
\* largest number of candidate triples in one search
MaxCandidates == 4

\* observation values of the series of the grid search specification
Observations == {1, 2}
\* the candidate lists one axis of the grid is drawn from
AxisLists == {<< >>, <<1>>, <<2, 0>>}
Forecasts == 0..MaxForecast

SeqsUpTo(S, n) == UNION {[1..m -> S] : m \in 0..n}
\* the series 1, 2, ..., n
Ramp(n) == [i \in 1..n |-> i]

----------------------------------------------------------------------------
(* Scores: Python floats as fixed-point records. *)

Scale == 1000
Num(v) == [k |-> "num", v |-> v]
\* float('inf')
Inf == [k |-> "inf", v |-> 0]
\* numpy's nan: the mean of an empty array
NaN == [k |-> "nan", v |-> 0]
\* no value: the evaluation raised
NoScore == [k |-> "none", v |-> 0]
\* best_cfg = None
None == << >>

\* Python's a < b on floats: false whenever either side is nan
Lt(a, b) ==
    /\ a.k = "num"
    /\ \/ b.k = "inf"
       \/ b.k = "num" /\ a.v < b.v

RECURSIVE ISqrtIter(_, _, _)
ISqrtIter(n, lo, hi) ==
    IF lo >= hi THEN lo
    ELSE LET mid == (lo + hi + 1) \div 2
         IN IF mid * mid <= n THEN ISqrtIter(n, mid, hi)
            ELSE ISqrtIter(n, lo, mid - 1)
\* floor of the square root
ISqrt(n) == ISqrtIter(n, 0, 46340)

RECURSIVE SumSq(_, _)
SumSq(xs, ys) ==
    IF xs = << >> \/ ys = << >> THEN 0
    ELSE (Head(xs) - Head(ys)) * (Head(xs) - Head(ys)) + SumSq(Tail(xs), Tail(ys))

\* statsmodels.tools.eval_measures.rmse: sqrt(mean((x1 - x2)**2))
Rmse(x1, x2) ==
    IF Len(x1) = 0 THEN NaN
    ELSE Num(ISqrt((SumSq(x1, x2) * Scale * Scale) \div Len(x1)))

----------------------------------------------------------------------------
(* evaluate_arima_models *)

SplitPercent == 66
\* train_size = int(len(X)*0.66)
TrainSizeHalf(n) == n \div 2
TrainSize(n) == (n * SplitPercent) \div 100
\* train, test = X[0:train_size], X[train_size:]
Train(X) == SubSeq(X, 1, TrainSize(Len(X)))
Test(X) == SubSeq(X, TrainSize(Len(X)) + 1, Len(X))

\* history.append(test[t]) after a forecast yhat of observation obs
GrowHistoryWithForecast(h, obs, yhat) == Append(h, yhat)
GrowHistory(h, obs, yhat) == Append(h, obs)

----------------------------------------------------------------------------
(* evaluate_models: the three nested loops *)

Order(ps, ds, qs, at) == <<ps[at[1]], ds[at[2]], qs[at[3]]>>
\* <<0, 0, 0>>: the loops are exhausted
Exhausted == <<0, 0, 0>>

FirstPos(ps, ds, qs) ==
    IF Len(ps) = 0 \/ Len(ds) = 0 \/ Len(qs) = 0 THEN Exhausted
    ELSE <<1, 1, 1>>

NextPosQOuter(ps, ds, qs, at) ==
    IF at[1] < Len(ps) THEN <<at[1] + 1, at[2], at[3]>>
    ELSE IF at[2] < Len(ds) THEN <<1, at[2] + 1, at[3]>>
    ELSE IF at[3] < Len(qs) THEN <<1, 1, at[3] + 1>>
    ELSE Exhausted
\* for p in p_values: for d in d_values: for q in q_values
NextPos(ps, ds, qs, at) ==
    IF at[3] < Len(qs) THEN <<at[1], at[2], at[3] + 1>>
    ELSE IF at[2] < Len(ds) THEN <<at[1], at[2] + 1, 1>>
    ELSE IF at[1] < Len(ps) THEN <<at[1] + 1, 1, 1>>
    ELSE Exhausted

\* if rmse < best_score
ImprovesOrTies(rmse, best) == Lt(rmse, best) \/ rmse = best
ImprovesAlways(rmse, best) == rmse.k = "num"
ImprovesFirstOnly(rmse, best) == rmse.k = "num" /\ best.k = "inf"
Improves(rmse, best) == Lt(rmse, best)

ProgressLine(order, rmse) == [kind |-> "ARIMA order", cfg |-> order, score |-> rmse]
FinalLine(cfg, score) == [kind |-> "Best ARIMA order", cfg |-> cfg, score |-> score]

\* the control point after a candidate is finished
AfterCandidate(at) == IF at = Exhausted THEN "final" ELSE "loop"

----------------------------------------------------------------------------
(* Initial states *)

Grids ==
    {g \in AxisLists \X AxisLists \X AxisLists :
        Len(g[1]) * Len(g[2]) * Len(g[3]) <= MaxCandidates}

InitLocals ==
    /\ pc = "coerce"
    /\ pos = Exhausted
    /\ history = << >>
    /\ predictions = << >>
    /\ t = 0
    /\ best_score = NoScore
    /\ best_cfg = None
    /\ output = << >>
    /\ evaluated = << >>
    /\ walked = 0

Init ==
    /\ dataset \in SeqsUpTo(Observations, MaxLen)
    /\ numeric \in BOOLEAN
    /\ \E g \in Grids : p_values = g[1] /\ d_values = g[2] /\ q_values = g[3]
    /\ InitLocals

\* series of one repeated observation, grids whose d axis is a single value
InitFair ==
    /\ dataset \in SeqsUpTo({1}, MaxLen)
    /\ numeric \in BOOLEAN
    /\ \E g \in Grids :
          g[2] = <<1>> /\ p_values = g[1] /\ d_values = g[2] /\ q_values = g[3]
    /\ InitLocals

\* one candidate at most, series 1..n up to the example of length 10
InitEval ==
    /\ dataset \in {Ramp(n) : n \in 0..MaxEvalLen}
    /\ numeric \in BOOLEAN
    /\ p_values \in {<< >>, <<0>>, <<1>>}
    /\ d_values \in {<<0>>, <<1>>}
    /\ q_values = <<0>>
    /\ InitLocals

----------------------------------------------------------------------------
(* Actions *)

inputs == <<dataset, numeric, p_values, d_values, q_values>>

\* line 132 raises: the exception leaves evaluate_models
CoerceFails ==
    /\ pc = "coerce"
    /\ ~numeric
    /\ pc' = "raised"
    /\ UNCHANGED <<inputs, pos, history, predictions, t, best_score, best_cfg,
                   output, evaluated, walked>>

\* lines 132-134: coerce, initialise Best Result, enter the loops
Coerce ==
    /\ pc = "coerce"
    /\ numeric
    /\ best_score' = Inf
    /\ best_cfg' = None
    /\ pos' = FirstPos(p_values, d_values, q_values)
    /\ pc' = AfterCandidate(pos')
    /\ UNCHANGED <<inputs, history, predictions, t, output, evaluated, walked>>

\* lines 137-139, 70-74: call evaluate_arima_models for the triple at pos
StartCandidateKeepsLocals ==
    /\ pc = "loop"
    /\ history' = (IF evaluated = << >> THEN Train(dataset) ELSE history)
    /\ predictions' = predictions
    /\ t' = 0
    /\ pc' = "walk"
    /\ UNCHANGED <<inputs, pos, best_score, best_cfg, output, evaluated, walked>>
StartCandidate ==
    /\ pc = "loop"
    /\ history' = Train(dataset)
    /\ predictions' = << >>
    /\ t' = 0
    /\ pc' = "walk"
    /\ UNCHANGED <<inputs, pos, best_score, best_cfg, output, evaluated, walked>>

\* lines 76-80: one walk-forward step whose fit and forecast succeed
Forecast ==
    /\ pc = "walk"
    /\ t < Len(Test(dataset))
    /\ \E yhat \in Forecasts :
        /\ predictions' = Append(predictions, yhat)
        /\ history' = GrowHistory(history, Test(dataset)[t + 1], yhat)
    /\ t' = t + 1
    /\ UNCHANGED <<inputs, pc, pos, best_score, best_cfg, output, evaluated,
                   walked>>

\* the except clause of lines 143-144
SkipAborts(order) ==
    /\ pc' = "raised"
    /\ pos' = pos
    /\ evaluated' = Append(evaluated, [order |-> order, score |-> NoScore])
SkipCandidate(order) ==
    /\ pos' = NextPos(p_values, d_values, q_values, pos)
    /\ pc' = AfterCandidate(pos')
    /\ evaluated' = Append(evaluated, [order |-> order, score |-> NoScore])

\* lines 140-142: the comparison and the update of Best Result
UpdateAndNarrate(order, rmse) ==
    IF Improves(rmse, best_score)
    THEN /\ best_score' = rmse
         /\ best_cfg' = order
         /\ output' = Append(output, ProgressLine(order, rmse))
    ELSE /\ UNCHANGED <<best_score, best_cfg>>
         /\ output' = Append(output, ProgressLine(order, rmse))
UpdateScoreOnly(order, rmse) ==
    IF Improves(rmse, best_score)
    THEN /\ best_score' = rmse
         /\ best_cfg' = best_cfg
         /\ output' = Append(output, ProgressLine(order, rmse))
    ELSE UNCHANGED <<best_score, best_cfg, output>>
UpdateBest(order, rmse) ==
    IF Improves(rmse, best_score)
    THEN /\ best_score' = rmse
         /\ best_cfg' = order
         /\ output' = Append(output, ProgressLine(order, rmse))
    ELSE UNCHANGED <<best_score, best_cfg, output>>

\* lines 76-78 raise; lines 143-144 catch and continue
ForecastFailsPartialCredit ==
    /\ pc = "walk"
    /\ t < Len(Test(dataset))
    /\ SkipCandidate(Order(p_values, d_values, q_values, pos))
    /\ history' = << >>
    /\ predictions' = << >>
    /\ t' = 0
    /\ walked' = t
    /\ IF t > 0
       THEN UpdateBest(Order(p_values, d_values, q_values, pos),
                       Rmse(SubSeq(Test(dataset), 1, t), predictions))
       ELSE UNCHANGED <<best_score, best_cfg, output>>
    /\ UNCHANGED inputs
ForecastFails ==
    /\ pc = "walk"
    /\ t < Len(Test(dataset))
    /\ SkipCandidate(Order(p_values, d_values, q_values, pos))
    /\ history' = << >>
    /\ predictions' = << >>
    /\ t' = 0
    /\ walked' = t
    /\ UNCHANGED <<inputs, best_score, best_cfg, output>>

\* lines 82-83, 139-142: the walk is over, the error is returned and compared
Score ==
    /\ pc = "walk"
    /\ t = Len(Test(dataset))
    /\ LET order == Order(p_values, d_values, q_values, pos)
           rmse == Rmse(Test(dataset), predictions)
       IN /\ UpdateBest(order, rmse)
          /\ evaluated' = Append(evaluated, [order |-> order, score |-> rmse])
    /\ pos' = NextPos(p_values, d_values, q_values, pos)
    /\ pc' = AfterCandidate(pos')
    /\ history' = << >>
    /\ predictions' = << >>
    /\ t' = 0
    /\ walked' = t
    /\ UNCHANGED inputs

\* line 146
Report ==
    /\ pc = "final"
    /\ output' = Append(output, FinalLine(best_cfg, best_score))
    /\ pc' = "done"
    /\ UNCHANGED <<inputs, pos, history, predictions, t, best_score, best_cfg,
                   evaluated, walked>>

Next ==
    \/ CoerceFails
    \/ Coerce
    \/ StartCandidate
    \/ Forecast
    \/ ForecastFails
    \/ Score
    \/ Report

Spec == Init /\ [][Next]_vars
EvalSpec == InitEval /\ [][Next]_vars
\* the code is sequential and nothing in it blocks
FairSpec == InitFair /\ [][Next]_vars /\ WF_vars(Next)

----------------------------------------------------------------------------
(* Vocabulary of the properties, stated without the model's operators *)

Last(s) == s[Len(s)]

\* floor(0.66 * n)
Floor66(n) == CHOOSE k \in 0..n : 100 * k <= 66 * n /\ 66 * n < 100 * (k + 1)

NumCandidates == Len(p_values) * Len(d_values) * Len(q_values)

\* the i-th triple of the product, p outermost, d middle, q innermost
ExpectedOrder(i) ==
    LET nd == Len(d_values)
        nq == Len(q_values)
    IN <<p_values[((i - 1) \div (nd * nq)) + 1],
         d_values[(((i - 1) \div nq) % nd) + 1],
         q_values[((i - 1) % nq) + 1]>>

\* the place of loop position at in the enumeration, 0 when exhausted
PlaceOf(at) ==
    IF at = <<0, 0, 0>> THEN 0
    ELSE ((at[1] - 1) * Len(d_values) + (at[2] - 1)) * Len(q_values) + at[3]

\* entry i of the log returned an error value
Succeeded(i) == evaluated[i].score.k = "num"
\* entry i of the log raised, or returned no number (empty test suffix)
Failed(i) == ~Succeeded(i)
SucceededSoFar == {i \in 1..Len(evaluated) : Succeeded(i)}

\* entry i succeeded with an error below that of every earlier success
IsImprovement(i) ==
    /\ Succeeded(i)
    /\ \A j \in 1..(i - 1) : Succeeded(j) => evaluated[i].score.v < evaluated[j].score.v

\* the first logged candidate with the lowest error
FirstBest ==
    CHOOSE i \in SucceededSoFar :
        /\ \A j \in SucceededSoFar : evaluated[i].score.v <= evaluated[j].score.v
        /\ \A j \in SucceededSoFar :
              evaluated[j].score.v = evaluated[i].score.v => i <= j

\* a candidate finishes in this step by raising
CandidateFails ==
    /\ Len(evaluated') = Len(evaluated) + 1
    /\ Last(evaluated').score.k = "none"
\* a candidate finishes in this step by returning an error
CandidateReturns ==
    /\ Len(evaluated') = Len(evaluated) + 1
    /\ Last(evaluated').score.k # "none"

----------------------------------------------------------------------------
(* C1 *)

\* C1: a candidate whose evaluation raises, at any walk-forward step, is
\* caught at the per-candidate boundary: the search does not abort, it goes on
\* with the next triple in enumeration order (or to the final report after the
\* last one), and every search that got past the coercion reaches its final
\* report, whatever candidates fail.
C1_FailureIsolation ==
    /\ [][CandidateFails =>
            /\ pc' \in {"loop", "final"}
            /\ PlaceOf(pos') = (IF PlaceOf(pos) = NumCandidates THEN 0
                                ELSE PlaceOf(pos) + 1)
            /\ (pc' = "final") = (PlaceOf(pos) = NumCandidates)]_vars
    /\ <>(~numeric \/ (pc = "done" /\ Last(output).kind = "Best ARIMA order"))

\* a finished search in which one candidate failed after a forecast of the same
\* candidate, and a later candidate succeeded
C1_Witness ==
    /\ pc = "done"
    /\ Len(evaluated) >= 2
    /\ Len(dataset) - Floor66(Len(dataset)) >= 2
    /\ \E i \in 1..Len(evaluated) : \E j \in (i + 1)..Len(evaluated) :
          evaluated[i].score.k = "none" /\ Succeeded(j)

----------------------------------------------------------------------------
(* C2 *)

\* C2: when the search is over and at least one candidate succeeded, the Best
\* Result of the final line has the minimum error over the succeeding
\* candidates, and its triple is a succeeding candidate that returned exactly
\* that error; the whole product has been evaluated.
C2_BestAmongSucceeding ==
    (pc = "done" /\ SucceededSoFar # {}) =>
        /\ Len(evaluated) = NumCandidates
        /\ best_score.k = "num"
        /\ \A i \in SucceededSoFar : best_score.v <= evaluated[i].score.v
        /\ \E i \in SucceededSoFar :
              evaluated[i].order = best_cfg /\ evaluated[i].score = best_score
        /\ Last(output).cfg = best_cfg
        /\ Last(output).score = best_score

\* a finished search with a failed candidate, and a later success that beat an
\* earlier one
C2_Witness ==
    /\ pc = "done"
    /\ \E i \in 1..Len(evaluated) : evaluated[i].score.k = "none"
    /\ \E i \in SucceededSoFar : \E j \in SucceededSoFar :
          i < j /\ evaluated[j].score.v < evaluated[i].score.v
                /\ best_cfg = evaluated[j].order

----------------------------------------------------------------------------
(* C3 *)

\* C3: Best Result is replaced only by a strictly lower error, so at every
\* point of the search its triple is the first enumerated among the candidates
\* that returned the lowest error so far.
C3_FirstFoundWinsTies ==
    SucceededSoFar # {} =>
        /\ best_cfg = evaluated[FirstBest].order
        /\ best_score = evaluated[FirstBest].score

\* a finished search where two different triples returned the same lowest error
C3_Witness ==
    /\ pc = "done"
    /\ \E i \in SucceededSoFar : \E j \in SucceededSoFar :
          /\ i < j
          /\ evaluated[i].score = evaluated[j].score
          /\ evaluated[i].order # evaluated[j].order
          /\ evaluated[i].score = best_score
          /\ best_cfg = evaluated[i].order

----------------------------------------------------------------------------
(* C4 *)

\* the score a is not above the score b
NotAbove(a, b) ==
    \/ a = b
    \/ a.k = "num" /\ b.k = "inf"
    \/ a.k = "num" /\ b.k = "num" /\ a.v <= b.v

\* C4: Best Result's error starts at positive infinity and no step of the
\* enumeration, whether its candidate succeeds or fails, increases it.
C4_BestErrorNonIncreasing ==
    [][/\ (pc = "coerce" /\ pc' # "raised") => best_score'.k = "inf"
       /\ pc # "coerce" => NotAbove(best_score', best_score)]_vars

\* the error went down twice, and a later candidate returned a higher error
C4_Witness ==
    /\ Len(output) >= 2
    /\ output[1].kind = "ARIMA order"
    /\ output[2].kind = "ARIMA order"
    /\ output[2].score.v < output[1].score.v
    /\ evaluated # << >>
    /\ Succeeded(Len(evaluated))
    /\ Last(evaluated).score.v > best_score.v

----------------------------------------------------------------------------
(* C5 *)

\* C5: for a series of length n >= 4, when evaluate_arima_models returns, the
\* split was at floor(0.66 * n), one prediction was made per element of the
\* test suffix (n - floor(0.66 * n) of them; 4 for the series 1..10, split at
\* 6), and the returned error is a number >= 0.
C5_OnePredictionPerTestElement ==
    [][(Len(dataset) >= 4 /\ CandidateReturns) =>
            /\ Len(predictions) = Len(dataset) - Floor66(Len(dataset))
            /\ Len(history) = Len(dataset)
            /\ (Len(dataset) = 10 => Len(predictions) = 4)
            /\ Last(evaluated').score.k = "num"
            /\ Last(evaluated').score.v >= 0]_vars

\* the example series of length 10 evaluated to a positive error
C5_Witness ==
    /\ dataset = [i \in 1..10 |-> i]
    /\ evaluated # << >>
    /\ Succeeded(Len(evaluated))
    /\ Last(evaluated).score.v > 0

----------------------------------------------------------------------------
(* C6 *)

\* C6: at step t of the walk, History is the first split + t elements of the
\* series (true observations in series order, none predicted, none from
\* position split + t on), and within a walk History never shrinks.
C6_ExpandingWindow ==
    [][/\ pc' = "walk" =>
            /\ t' = Len(predictions')
            /\ history' = [i \in 1..(Floor66(Len(dataset)) + t') |-> dataset[i]]
       /\ (pc = "walk" /\ pc' = "walk") =>
            /\ t' = t + 1
            /\ Len(history') = Len(history) + 1]_vars

\* a walk at its third step whose forecasts all differ from the observations
C6_Witness ==
    /\ pc = "walk"
    /\ t >= 2
    /\ t < Len(dataset) - Floor66(Len(dataset))
    /\ \A i \in 1..t : predictions[i] # dataset[Floor66(Len(dataset)) + i]

----------------------------------------------------------------------------
(* C7 *)

\* C7: when the search is over and no candidate succeeded, the final report
\* does not present the initial sentinel (None, positive infinity) as the
\* best result.
C7_NoSuccessReportedDistinctly ==
    (pc = "done" /\ SucceededSoFar = {}) =>
        ~(/\ Last(output).kind = "Best ARIMA order"
          /\ Last(output).cfg = << >>
          /\ Last(output).score.k = "inf")

----------------------------------------------------------------------------
(* C8 *)

\* the test suffix is empty, or the series cannot be coerced to float
InputFailure ==
    \/ Len(dataset) - Floor66(Len(dataset)) = 0
    \/ ~numeric

\* C8: on an input failure, in a search that has candidates, no candidate
\* evaluation begins and the search does not end with a report: the only way
\* out is the error raised to the caller.
C8_InputFailureSurfacedFirst ==
    (InputFailure /\ NumCandidates > 0) =>
        /\ pc \notin {"walk", "done"}
        /\ evaluated = << >>

----------------------------------------------------------------------------
(* C9 *)

\* C9: the candidates are evaluated one at a time in the order of the product
\* (p outermost, d middle, q innermost): the log is always a prefix of that
\* order, the candidate being walked is the next one, and the final report
\* comes only when every triple has been evaluated exactly once, whatever
\* failed or improved on the way.
C9_FullProductInOrder ==
    /\ Len(evaluated) <= NumCandidates
    /\ \A i \in 1..Len(evaluated) : evaluated[i].order = ExpectedOrder(i)
    /\ pc \in {"loop", "walk"} =>
          /\ Len(evaluated) < NumCandidates
          /\ PlaceOf(pos) = Len(evaluated) + 1
          /\ <<p_values[pos[1]], d_values[pos[2]], q_values[pos[3]]>>
                = ExpectedOrder(Len(evaluated) + 1)
    /\ pc \in {"final", "done"} => Len(evaluated) = NumCandidates

\* a finished search over four triples, with a failure and an improvement in it
C9_Witness ==
    /\ pc = "done"
    /\ Len(evaluated) = 4
    /\ Len(p_values) = 2
    /\ Len(q_values) = 2
    /\ evaluated[1].score.k = "none"
    /\ Len(output) >= 3

----------------------------------------------------------------------------
(* C10 *)

RECURSIVE ImprovementLines(_)
\* the progress lines that the first n entries of the log call for
ImprovementLines(n) ==
    IF n = 0 THEN << >>
    ELSE IF IsImprovement(n)
         THEN Append(ImprovementLines(n - 1),
                     [kind |-> "ARIMA order", cfg |-> evaluated[n].order,
                      score |-> evaluated[n].score])
         ELSE ImprovementLines(n - 1)

\* C10: what has been printed is exactly one progress line per candidate that
\* succeeded with an error strictly below the best so far, in enumeration
\* order, each with its triple and error, and nothing for a failed or a
\* non-improving candidate; then, once all candidates are processed and only
\* then, one final line with the overall Best Result.
C10_ProgressLines ==
    output =
        IF pc = "done"
        THEN Append(ImprovementLines(Len(evaluated)),
                    [kind |-> "Best ARIMA order", cfg |-> best_cfg,
                     score |-> best_score])
        ELSE ImprovementLines(Len(evaluated))

\* a finished search with an improving, a non-improving and a failed candidate
C10_Witness ==
    /\ pc = "done"
    /\ Len(output) = 3
    /\ \E i \in 1..Len(evaluated) : evaluated[i].score.k = "none"
    /\ \E i \in SucceededSoFar : ~IsImprovement(i)

----------------------------------------------------------------------------
(* C11 *)

\* the walk of the current candidate ends before its last step: the modeling
\* primitive failed to fit or forecast at step t
PrimitiveFails ==
    /\ pc = "walk"
    /\ pc' # "walk"
    /\ t < Len(dataset) - Floor66(Len(dataset))

\* C11: when the modeling primitive fails at any step of a candidate's walk,
\* also after earlier steps of that candidate succeeded, the candidate yields
\* no error value, nothing is printed for it, and Best Result (error and
\* triple) is what it was before that candidate.
C11_NoPartialCredit ==
    [][PrimitiveFails =>
            /\ Len(evaluated') = Len(evaluated) + 1
            /\ Last(evaluated').score.k = "none"
            /\ best_score' = best_score
            /\ best_cfg' = best_cfg
            /\ output' = output]_vars

\* a candidate failed after at least one forecast of its own, while an
\* earlier candidate holds Best Result with a positive error
C11_Witness ==
    /\ evaluated # << >>
    /\ Last(evaluated).score.k = "none"
    /\ walked >= 1
    /\ best_cfg # << >>
    /\ best_cfg # Last(evaluated).order
    /\ best_score.k = "num"
    /\ best_score.v > 0

----------------------------------------------------------------------------
(* C12 *)

\* the evaluation of the next candidate begins in this step
EvaluationBegins == pc = "loop" /\ pc' = "walk"
\* the evaluation of the current candidate ends in this step
EvaluationEnds == pc = "walk" /\ pc' # "walk"

\* C12: every candidate's evaluation begins with History equal to the
\* training prefix of the series (its first floor(0.66 * n) elements) and an
\* empty Prediction Record, whatever the earlier candidates did; History and
\* the Prediction Record do not outlive the evaluation, and beginning an
\* evaluation leaves Best Result alone.
C12_FreshStatePerCandidate ==
    [][/\ EvaluationBegins =>
            /\ history' = [i \in 1..Floor66(Len(dataset)) |-> dataset[i]]
            /\ predictions' = << >>
            /\ t' = 0
            /\ best_score' = best_score
            /\ best_cfg' = best_cfg
       /\ EvaluationEnds =>
            /\ history' = << >>
            /\ predictions' = << >>]_vars

\* a candidate starts afresh right after one that failed mid-walk, having
\* appended to its History
C12_Witness ==
    /\ pc = "walk"
    /\ t = 0
    /\ predictions = << >>
    /\ Len(history) >= 1
    /\ evaluated # << >>
    /\ Last(evaluated).score.k = "none"
    /\ walked >= 1

----------------------------------------------------------------------------
(* C13 *)

Elems(xs) == {xs[i] : i \in 1..Len(xs)}

\* C13: from the initialisation of Best Result on, the best triple is None
\* exactly when the best error is still positive infinity; a best triple that
\* is defined is a triple of the candidate product that has already been
\* evaluated and succeeded, and the best error is the error it returned.
C13_BestPairConsistent ==
    pc \notin {"coerce", "raised"} =>
        /\ (best_cfg = << >>) <=> (best_score.k = "inf")
        /\ best_cfg # << >> =>
              /\ best_cfg \in Elems(p_values) \X Elems(d_values) \X Elems(q_values)
              /\ \E i \in 1..Len(evaluated) :
                    /\ evaluated[i].order = best_cfg
                    /\ evaluated[i].score.k = "num"
                    /\ evaluated[i].score = best_score

\* in the middle of a search, Best Result replaced twice, a failed candidate
\* in between or around
C13_Witness ==
    /\ pc = "walk"
    /\ Len(output) = 2
    /\ best_cfg # << >>
    /\ best_cfg = output[2].cfg
    /\ best_score = output[2].score
    /\ \E i \in 1..Len(evaluated) : evaluated[i].score.k = "none"

====
